---- MODULE Spec2Model ----
(***************************************************************************)
(* Task Scheduling & Dispatch Core of src/05_automation/task_scheduler.py  *)
(* (class TaskScheduler and class Task).                                   *)
(*                                                                         *)
(* A Task object is a Python object with identity: the registry            *)
(* (self.tasks), the jobs of the `schedule` module, the file observers and *)
(* the retry timers all hold references to Task objects, so the model      *)
(* keeps the objects in the sequence objs and refers to them by index.     *)
(* Time is counted in minutes.                                             *)
(***************************************************************************)
EXTENDS Integers, Sequences, FiniteSets, Bags, TLC

VARIABLES
    objs,             \* the Task objects constructed so far (index = identity)
    tasks,            \* self.tasks: task id -> Task object (0: id not in the dict)
    file_observers,   \* self.file_observers: task id -> object whose Observer is stored (0: none)
    running,          \* self.running
    pollers,          \* live run_scheduler threads (the polling cycles)
    scheduler_thread, \* self.scheduler_thread (0: None)
    execs,            \* bag of threads of control inside or about to enter _execute_task
    nentries,         \* entries into _execute_task so far
    history,          \* rows of table task_history, in insertion (AUTOINCREMENT) order
    now,              \* datetime.now(), in minutes
    ticks,            \* clock advances so far
    env,              \* what surrounds the program: is the history store writable,
                      \* is the "email" entry of the configuration a table, does
                      \* it hold the mail username and password
    outbox,           \* the messages handed to the mail transport, oldest first
    event,            \* what the last step did, as far as the properties speak of it
    request           \* the call of APIClient._make_request under way, of
                      \* src/03_web_scraping/api_client.py

vars == <<objs, tasks, file_observers, running, pollers, scheduler_thread,
          execs, nentries, history, now, ticks, env, outbox, event, request>>

schedulerVars == <<objs, tasks, file_observers, running, pollers, scheduler_thread,
                   execs, nentries, history, now, ticks, env, outbox, event>>

regVars == <<tasks, file_observers>>
loopVars == <<running, pollers, scheduler_thread>>
clockVars == <<now, ticks>>

----------------------------------------------------------------------------
(* Bounds of the model *)
MaxObjs == 2        \* Task objects constructed (calls of add_task)
MaxThreads == 2     \* threads and timers alive at once around _execute_task
MaxEntries == 2     \* entries into _execute_task
MaxTicks == 1       \* clock advances
MaxPollers == 1     \* polling threads alive when start() is called anew

(* Program constants *)
FreshWindow == 1440 \* timedelta(hours=24), in minutes
Day == 1440         \* timedelta(days=1), in minutes
RetryDelay == 1     \* threading.Timer(60, ...), in minutes

TaskIds == {"T1", "T2"}
NoTime == -1        \* last_run is None
NoHash == -1        \* the Task has no attribute _last_url_hash
Hashes == {1, 2}    \* hash(response.text) of the polled URL

Terminal == {"completed", "failed", "cancelled", "skipped"}

(* a call of APIClient._make_request: where it is ("idle": not called,    *)
(* "loop": in the retry loop of line 141, "done": returned), the client's  *)
(* max_retries, the loop variable attempt, the responses its attempts got, *)
(* oldest first, and what it returned                                      *)
MkRequest(pc, max_retries, attempt, seen, result) ==
    [pc |-> pc, max_retries |-> max_retries, attempt |-> attempt, seen |-> seen,
     result |-> result]
NoRequest == MkRequest("idle", 0, 0, <<>>, "pending")

(* what a step did: its kind, the Task object it was about (0: none) and   *)
(* what the kind has to tell                                               *)
MkEvent(kind, o, detail) == [kind |-> kind, obj |-> o, detail |-> detail]
NoEvent == MkEvent("none", 0, <<>>)

(* Task descriptions handed to add_task.  cmd is the kind of task.command  *)
(* ("python:" prefix, "http:"/"https:" prefix, anything else is a shell    *)
(* command); watch says that the command contains "watch:"; sched is the   *)
(* kind of task.schedule_expr ("every" stands for the expressions that     *)
(* install one periodic job: every/at/cron).                               *)
MkDef(id, cmd, sched, enabled, max_retries, deps, watch, on_success, on_failure) ==
    [task_id |-> id, cmd |-> cmd, sched |-> sched, enabled |-> enabled,
     max_retries |-> max_retries, deps |-> deps, watch |-> watch,
     notify_on_success |-> on_success, notify_on_failure |-> on_failure]

Catalog ==
    { MkDef("T1", "shell",  "every",                 TRUE,  1, {},     FALSE, FALSE, TRUE),
      MkDef("T1", "http",   "on_url_change",         TRUE,  1, {},     FALSE, TRUE,  TRUE),
      MkDef("T1", "python", "on_resource_threshold", TRUE,  0, {},     FALSE, TRUE,  FALSE),
      MkDef("T1", "shell",  "on_file_change",        TRUE,  0, {},     TRUE,  FALSE, FALSE),
      MkDef("T2", "shell",  "every",                 TRUE,  0, {"T1"}, FALSE, TRUE,  FALSE),
      MkDef("T2", "shell",  "unknown",               TRUE,  0, {},     FALSE, FALSE, TRUE),
      MkDef("T2", "shell",  "every",                 FALSE, 0, {},     FALSE, TRUE,  TRUE) }

----------------------------------------------------------------------------
(* Task.__init__: a new Task object for description d.  job and observer   *)
(* are the trigger bound to this object: the job of the schedule module    *)
(* created with this object in its closure ("none", "task": tagged         *)
(* task_id, "url": tagged task_id_url_monitor, "resource": tagged          *)
(* task_id_resource_monitor) and the watchdog Observer created for it      *)
(* ("none", "alive", "stopped").                                           *)
NewTask(d) ==
    [task_id |-> d.task_id, cmd |-> d.cmd, sched |-> d.sched,
     enabled |-> d.enabled, max_retries |-> d.max_retries, deps |-> d.deps,
     watch |-> d.watch, notify_on_success |-> d.notify_on_success,
     notify_on_failure |-> d.notify_on_failure,
     last_run |-> NoTime, retry_count |-> 0,
     is_running |-> FALSE, url_hash |-> NoHash, job |-> "none",
     observer |-> "none"]

Objs == 1..Len(objs)

(* _schedule_task: the job installed for a task object *)
ScheduledJob(t) ==
    IF ~t.enabled THEN "none"
    ELSE CASE t.sched = "every" -> "task"
           [] t.sched = "on_url_change" -> "url"
           [] t.sched = "on_resource_threshold" -> "resource"
           [] OTHER -> "none"

(* _setup_file_watcher: an Observer is started only when the command       *)
(* contains "watch:"                                                       *)
ScheduledObserver(t) ==
    IF t.enabled /\ t.sched = "on_file_change" /\ t.watch THEN "alive" ELSE "none"

ScheduleTask(t) ==
    [t EXCEPT !.job = ScheduledJob(t), !.observer = ScheduledObserver(t)]

----------------------------------------------------------------------------
(* the history store takes inserts; _load_config without a configuration   *)
(* file: the default configuration has an "email" table with an empty      *)
(* username and password                                                   *)
DefaultEnv == [store_ok |-> TRUE, mail_section_ok |-> TRUE, mail_configured |-> FALSE]

(* _load_config with a configuration file takes whatever JSON value it     *)
(* holds: the "email" entry may be no table at all (null, a string), and   *)
(* then it holds no username and password                                  *)
Envs ==
    {c \in [store_ok : BOOLEAN, mail_section_ok : BOOLEAN, mail_configured : BOOLEAN] :
        c.mail_configured => c.mail_section_ok}

Init ==
    /\ objs = <<>>
    /\ tasks = [id \in TaskIds |-> 0]
    /\ file_observers = [id \in TaskIds |-> 0]
    /\ running = FALSE
    /\ pollers = {}
    /\ scheduler_thread = 0
    /\ execs = EmptyBag
    /\ nentries = 0
    /\ history = <<>>
    /\ now = 0
    /\ ticks = 0
    /\ env = DefaultEnv
    /\ outbox = <<>>
    /\ request = NoRequest
    /\ event = NoEvent

(* add_task(task), with a Task object the caller has just constructed *)
AddTask(d) ==
    /\ Len(objs) < MaxObjs
    /\ LET t == ScheduleTask(NewTask(d))
           o == Len(objs) + 1
       IN /\ objs' = Append(objs, t)
          /\ tasks' = [tasks EXCEPT ![t.task_id] = o]
          /\ file_observers' = IF t.observer = "alive"
                               THEN [file_observers EXCEPT ![t.task_id] = o]
                               ELSE file_observers
    /\ UNCHANGED <<loopVars, execs, nentries, history, clockVars, env, outbox, request>>
    /\ event' = NoEvent

(* schedule.clear(task_id): cancels the jobs tagged exactly task_id *)
ScheduleClear(os, id) ==
    [o \in DOMAIN os |->
        IF os[o].task_id = id /\ os[o].job = "task"
        THEN [os[o] EXCEPT !.job = "none"] ELSE os[o]]

(* self.file_observers[task_id].stop() *)
StopObserver(os, o) ==
    IF o = 0 THEN os ELSE [os EXCEPT ![o].observer = "stopped"]

(* remove_task(task_id): what it returns when nothing raises (lines 339,   *)
(* 355, 358)                                                               *)
RemoveTaskReturns(id) == tasks[id] # 0

(* remove_task(task_id) *)
RemoveTask(id) ==
    /\ tasks[id] # 0
    /\ objs' = StopObserver(ScheduleClear(objs, id), file_observers[id])
    /\ file_observers' = [file_observers EXCEPT ![id] = 0]
    /\ tasks' = [tasks EXCEPT ![id] = 0]
    /\ UNCHANGED <<loopVars, execs, nentries, history, clockVars, env, outbox, request>>
    /\ event' = NoEvent

----------------------------------------------------------------------------
(* Threads of control around _execute_task.  pc: "timer" a pending retry   *)
(* threading.Timer; "body" is_running has been set and the action is       *)
(* running (lines 547-605); "finally" the action is over and the finally   *)
(* block has not run yet (lines 607-620); "retry" the retry condition of   *)
(* line 620 held and line 621 has not run yet.  poller: the polling thread *)
(* that runs the execution as a job (0: a thread or timer of its own).     *)
(* attempt: how many retry timers lead from a dispatch to this thread (the *)
(* number the code logs as "attempt n/max_retries" when it retries).       *)
MkExec(o, pc, poller, start, due, status, attempt) ==
    [obj |-> o, pc |-> pc, poller |-> poller, start |-> start, due |-> due,
     status |-> status, attempt |-> attempt]

Threads == BagToSet(execs)
Put(b, e) == b (+) SetToBag({e})
Take(b, e) == b (-) SetToBag({e})

InExecute(e) == e.pc \in {"body", "finally"}

(* polling threads that are not inside a job *)
IdlePollers == {p \in pollers : \A e \in Threads : e.poller # p}

CanSpawn == BagCardinality(execs) < MaxThreads
EntriesLeft == nentries < MaxEntries

(* _execute_task lines 547-557, entered for object o by polling thread p   *)
(* (0: by a thread of its own): the TaskResult is created in status        *)
(* running with the start time                                             *)
EnterExecute(o, p, attempt) == MkExec(o, "body", p, now, 0, "running", attempt)

(* line 547: task.is_running = True *)
SetRunning(os, o) == [os EXCEPT ![o].is_running = TRUE]

(* run_task_immediately(task_id): False when the id is not registered,     *)
(* else a daemon thread is started on _execute_task(task), with no look at *)
(* is_running or at the dependencies.  The thread's creation and its entry *)
(* into _execute_task are one step.                                        *)
RunTaskImmediately(b, id) ==
    IF tasks[id] = 0 THEN b ELSE Put(b, EnterExecute(tasks[id], 0, 0))

RunTaskImmediatelyObjs(os, id) ==
    IF tasks[id] = 0 THEN os ELSE SetRunning(os, tasks[id])

(* the entries into _execute_task after run_task_immediately(id) *)
Entered(id) == IF tasks[id] = 0 THEN nentries ELSE nentries + 1

(* room in the model for the thread run_task_immediately(id) starts *)
RoomToRun(id) == tasks[id] # 0 => (CanSpawn /\ EntriesLeft)

(* a run_task_immediately that reports a start whatever the id *)
RunTaskImmediatelyReturns_Started(id) == TRUE

(* run_task_immediately(task_id): what it returns (lines 720-726) *)
RunTaskImmediatelyReturns(id) == tasks[id] # 0

(* a caller (command line --run-task, or the API) runs a task now *)
RunNow(id) ==
    /\ tasks[id] # 0
    /\ RoomToRun(id)
    /\ execs' = RunTaskImmediately(execs, id)
    /\ objs' = RunTaskImmediatelyObjs(objs, id)
    /\ nentries' = Entered(id)
    /\ UNCHANGED <<regVars, loopVars, history, clockVars, env, outbox, request>>
    /\ event' = NoEvent

(* FileWatcher.on_modified, called by the Observer thread of object o *)
FileEvent(o) ==
    /\ objs[o].observer = "alive"
    /\ RoomToRun(objs[o].task_id)
    /\ execs' = RunTaskImmediately(execs, objs[o].task_id)
    /\ objs' = RunTaskImmediatelyObjs(objs, objs[o].task_id)
    /\ nentries' = Entered(objs[o].task_id)
    /\ UNCHANGED <<regVars, loopVars, history, clockVars, env, outbox, request>>
    /\ event' = NoEvent

(* a check_url that requests execution on every response that is not the   *)
(* stored hash, the first one too                                          *)
PollRequests_OnFirstPoll(stored, fetched) == fetched # 0 /\ fetched # stored

(* check_url lines 476-487: does the poll call run_task_immediately.       *)
(* stored: task._last_url_hash (NoHash: no such attribute); fetched: the   *)
(* hash of the response (0: requests.get raised, which is logged)          *)
PollRequests(stored, fetched) ==
    fetched # 0 /\ stored # NoHash /\ fetched # stored

(* check_url: task._last_url_hash after the poll *)
PollStores(stored, fetched) == IF fetched = 0 THEN stored ELSE fetched

(* check_url, the job of _setup_url_monitor, run by a polling thread *)
CheckUrl(o, fetched) ==
    /\ running
    /\ IdlePollers # {}
    /\ objs[o].job = "url"
    /\ LET stored == objs[o].url_hash
           id == objs[o].task_id
           polled == [objs EXCEPT ![o].url_hash = PollStores(stored, fetched)]
       IN IF PollRequests(stored, fetched)
          THEN /\ RoomToRun(id)
               /\ objs' = RunTaskImmediatelyObjs(polled, id)
               /\ execs' = RunTaskImmediately(execs, id)
               /\ nentries' = Entered(id)
               /\ event' = MkEvent("polled", o, [fetched |-> fetched, requests |-> 1])
          ELSE /\ objs' = polled
               /\ UNCHANGED <<execs, nentries>>
               /\ event' = MkEvent("polled", o, [fetched |-> fetched, requests |-> 0])
    /\ UNCHANGED <<regVars, loopVars, history, clockVars, env, outbox, request>>

(* what check_resources finds: every usage at or under its threshold, some *)
(* usage over its threshold, or a psutil call or a comparison raises       *)
Readings == {"under", "over", "raised"}

(* check_resources, the job of _setup_resource_monitor, run by polling     *)
(* thread p.  Nothing in check_resources, in schedule.run_pending or in    *)
(* run_scheduler handles an exception: it ends the polling thread, and     *)
(* self.running stays as it is.                                            *)
CheckResources(o, p, reading) ==
    /\ running
    /\ p \in IdlePollers
    /\ objs[o].job = "resource"
    /\ CASE reading = "over" ->
              /\ RoomToRun(objs[o].task_id)
              /\ execs' = RunTaskImmediately(execs, objs[o].task_id)
              /\ objs' = RunTaskImmediatelyObjs(objs, objs[o].task_id)
              /\ nentries' = Entered(objs[o].task_id)
              /\ UNCHANGED <<pollers, scheduler_thread>>
         [] reading = "under" ->
              UNCHANGED <<objs, execs, nentries, pollers, scheduler_thread>>
         [] reading = "raised" ->
              /\ pollers' = pollers \ {p}
              /\ scheduler_thread' = IF scheduler_thread = p THEN 0 ELSE scheduler_thread
              /\ UNCHANGED <<objs, execs, nentries>>
    /\ UNCHANGED <<regVars, running, history, clockVars, env, outbox, request>>
    /\ event' = NoEvent

(* _check_dependencies(task) *)
CheckDependencies(t) ==
    \A dep \in t.deps :
        /\ tasks[dep] # 0
        /\ objs[tasks[dep]].last_run # NoTime
        /\ ~(now - objs[tasks[dep]].last_run > FreshWindow)

(* _execute_task_wrapper(task): the is-running guard and the dependency    *)
(* gate                                                                    *)
WrapperAdmits(t) == ~t.is_running /\ CheckDependencies(t)

(* a wrapper that counts a refused fire as a retry *)
WrapperRefuses_ConsumesRetry(os, o) == [os EXCEPT ![o].retry_count = @ + 1]

(* _execute_task_wrapper lines 518-525: the Task objects after a fire that *)
(* is dropped or denied; both branches only log and return                 *)
WrapperRefuses(os, o) == os

(* _execute_task_wrapper(task), the job installed for a periodic schedule, *)
(* run by polling thread p: a fire for a running task is dropped (lines    *)
(* 518-520), a fire the gate denies is logged (lines 523-525), else the    *)
(* thread enters _execute_task                                             *)
FireJob(o, p) ==
    /\ running
    /\ p \in IdlePollers
    /\ objs[o].job = "task"
    /\ IF WrapperAdmits(objs[o])
       THEN /\ CanSpawn
            /\ EntriesLeft
            /\ objs' = SetRunning(objs, o)
            /\ execs' = Put(execs, EnterExecute(o, p, 0))
            /\ nentries' = nentries + 1
            /\ event' = NoEvent
       ELSE /\ objs' = WrapperRefuses(objs, o)
            /\ UNCHANGED <<execs, nentries>>
            /\ event' = MkEvent(IF objs[o].is_running THEN "dropped" ELSE "denied",
                                o, <<>>)
    /\ UNCHANGED <<regVars, loopVars, history, clockVars, env, outbox, request>>

(* a retry timer that is due calls _execute_task(task) *)
TimerFire(e) ==
    /\ e \in Threads
    /\ e.pc = "timer"
    /\ now >= e.due
    /\ EntriesLeft
    /\ objs' = SetRunning(objs, e.obj)
    /\ execs' = Put(Take(execs, e), EnterExecute(e.obj, 0, e.attempt))
    /\ nentries' = nentries + 1
    /\ UNCHANGED <<regVars, loopVars, history, clockVars, env, outbox, request>>
    /\ event' = NoEvent

(* what the action of a task can do: a shell command exits 0, exits        *)
(* non-zero, runs into the timeout, or Popen/communicate raises;           *)
(* requests.get returns or raises; _execute_python_function returns        *)
Outcomes(cmd) ==
    CASE cmd = "shell" -> {"exit0", "nonzero", "timeout", "raised"}
      [] cmd = "http" -> {"returned", "raised"}
      [] cmd = "python" -> {"returned"}

AllOutcomes == {"exit0", "nonzero", "timeout", "returned", "raised"}

(* result.status after the try block, lines 561-605: only the shell branch *)
(* and the except clause assign it                                         *)
StatusAfter(outcome) ==
    CASE outcome = "exit0" -> "completed"
      [] outcome \in {"nonzero", "timeout", "raised"} -> "failed"
      [] outcome = "returned" -> "running"

(* lines 598-600 run unless the action raised *)
UpdatesTask(outcome) == outcome # "raised"

(* lines 599-600: task.last_run = start_time; task.retry_count = 0 *)
UpdateTask(t, start) == [t EXCEPT !.last_run = start, !.retry_count = 0]

(* _execute_task lines 561-605: the action runs and ends *)
RunAction(e, outcome) ==
    /\ e \in Threads
    /\ e.pc = "body"
    /\ outcome \in Outcomes(objs[e.obj].cmd)
    /\ execs' = Put(Take(execs, e),
                    [e EXCEPT !.pc = "finally", !.status = StatusAfter(outcome)])
    /\ objs' = IF UpdatesTask(outcome)
               THEN [objs EXCEPT ![e.obj] = UpdateTask(@, e.start)]
               ELSE objs
    /\ UNCHANGED <<regVars, loopVars, nentries, history, clockVars, env, outbox, request>>

Body(e, outcome) == RunAction(e, outcome) /\ event' = NoEvent

(* a shell branch that does not kill the process after a timeout *)
ResultAfter_NoKill(outcome) ==
    [status |-> StatusAfter(outcome),
     output |-> IF outcome = "exit0" THEN "stdout" ELSE "",
     error |-> CASE outcome = "nonzero" -> "stderr"
                 [] outcome = "timeout" -> "timed out"
                 [] outcome = "raised" -> "exception"
                 [] OTHER -> "none",
     killed |-> FALSE]

(* the TaskResult after the try block and whether the process was killed:  *)
(* result.output is the captured stdout on exit 0 (line 586) and stays     *)
(* empty otherwise; result.error is the captured stderr on a non-zero exit *)
(* (line 590), the timeout message after process.kill() (lines 593-595),   *)
(* the text of the exception in the except clause (line 604)               *)
ResultAfter(outcome) ==
    [status |-> StatusAfter(outcome),
     output |-> IF outcome = "exit0" THEN "stdout" ELSE "",
     error |-> CASE outcome = "nonzero" -> "stderr"
                 [] outcome = "timeout" -> "timed out"
                 [] outcome = "raised" -> "exception"
                 [] OTHER -> "none",
     killed |-> outcome = "timeout"]

(* the same step, with the outcome of the action and the TaskResult kept   *)
(* in event                                                                *)
BodyReports(e, outcome) ==
    /\ RunAction(e, outcome)
    /\ event' = MkEvent("ran", e.obj, [outcome |-> outcome, result |-> ResultAfter(outcome)])

(* the row _save_task_result inserts for a result that ended at end *)
Row(e, end) ==
    [task_id |-> objs[e.obj].task_id, status |-> e.status,
     start_time |-> e.start, end_time |-> end,
     execution_time |-> end - e.start]

(* a Result Recorder whose insert never raises *)
SaveTaskResult_NeverRaises(h, row) == Append(h, row)

(* _save_task_result(result): an exception of the store is logged *)
SaveTaskResult(h, row) ==
    IF env.store_ok THEN Append(h, row) ELSE h

(* does an exception of the store leave _save_task_result: lines 641 and   *)
(* 662 catch every Exception                                               *)
SaveEscapes(store_ok) == FALSE

(* a condition that takes either flag for either end *)
ShouldNotify_EitherFlag(status, t) ==
    status \in {"completed", "failed"} /\ (t.notify_on_success \/ t.notify_on_failure)

(* the condition of lines 667-670 *)
ShouldNotify(status, t) ==
    \/ status = "completed" /\ t.notify_on_success
    \/ status = "failed" /\ t.notify_on_failure

(* _send_notifications(task, result): it returns before it uses the       *)
(* transport when the condition of lines 667-670 fails or the username or  *)
(* the password is empty (lines 672-677); else the message goes to the     *)
(* transport, and an exception of the transport is logged (lines 707-708). *)
(* smtp_ok: the transport delivers                                         *)
SendNotifications(box, o, status, smtp_ok) ==
    IF ~ShouldNotify(status, objs[o]) THEN box
    ELSE IF ~env.mail_section_ok \/ ~env.mail_configured THEN box
    ELSE Append(box, [obj |-> o, status |-> status, delivered |-> smtp_ok])

(* does an exception leave _send_notifications: lines 679 and 707 catch    *)
(* every Exception of the transport, but lines 675-676 are outside the try *)
(* block and call .get on the "email" entry, which raises AttributeError   *)
(* when the entry is no table                                              *)
NotifyEscapes(status, t, smtp_ok) ==
    ShouldNotify(status, t) /\ ~env.mail_section_ok

(* the condition of line 620 *)
ShouldRetry(status, t) ==
    status = "failed" /\ t.retry_count < t.max_retries

(* does an exception leave the finally block of thread e *)
FinallyRaises(e, smtp_ok) ==
    SaveEscapes(env.store_ok) \/ NotifyEscapes(e.status, objs[e.obj], smtp_ok)

(* _execute_task lines 607-620: the finally block up to the retry test;    *)
(* without a retry the thread (or the job of the polling thread) ends.     *)
(* An exception that leaves _save_task_result or _send_notifications       *)
(* leaves the finally block with it, before the retry test, and ends the   *)
(* thread it is raised in: the polling thread when the execution is a job. *)
Finally(e, smtp_ok) ==
    /\ e \in Threads
    /\ e.pc = "finally"
    /\ objs' = [objs EXCEPT ![e.obj].is_running = FALSE]
    /\ history' = SaveTaskResult(history, Row(e, now))
    /\ outbox' = IF SaveEscapes(env.store_ok) THEN outbox
                 ELSE SendNotifications(outbox, e.obj, e.status, smtp_ok)
    /\ execs' = IF ~FinallyRaises(e, smtp_ok) /\ ShouldRetry(e.status, objs[e.obj])
                THEN Put(Take(execs, e), [e EXCEPT !.pc = "retry"])
                ELSE Take(execs, e)
    /\ pollers' = IF FinallyRaises(e, smtp_ok) THEN pollers \ {e.poller} ELSE pollers
    /\ scheduler_thread' = IF scheduler_thread \in pollers' THEN scheduler_thread ELSE 0
    /\ UNCHANGED <<regVars, running, nentries, clockVars, env, request>>
    /\ event' = NoEvent

(* the retry timer of line 623 *)
RetryTimer(e) ==
    MkExec(e.obj, "timer", 0, 0, now + RetryDelay, "pending", e.attempt + 1)

(* _execute_task lines 621-623: the retry is counted and its timer is      *)
(* started; the thread that ran the execution ends                         *)
Retry(e) ==
    /\ e \in Threads
    /\ e.pc = "retry"
    /\ objs' = [objs EXCEPT ![e.obj].retry_count = @ + 1]
    /\ execs' = Put(Take(execs, e), RetryTimer(e))
    /\ UNCHANGED <<regVars, loopVars, nentries, history, clockVars, env, outbox, request>>
    /\ event' = NoEvent

----------------------------------------------------------------------------
(* the polling thread start() creates *)
NewPoller == CHOOSE p \in 1..(Cardinality(pollers) + 1) : p \notin pollers

(* start(): `room` is the number of polling threads that may be alive    *)
(* once it has returned                                                   *)
StartCall(room) ==
    /\ ~running
    /\ Cardinality(pollers) < room
    /\ running' = TRUE
    /\ pollers' = pollers \cup {NewPoller}
    /\ scheduler_thread' = NewPoller
    /\ UNCHANGED <<objs, regVars, execs, nentries, history, clockVars, env, outbox, request>>
    /\ event' = NoEvent

(* start() once the polling thread of every earlier start() has ended *)
Start == StartCall(MaxPollers)

(* start() while the polling thread of an earlier start() may still be   *)
(* inside its cycle: stop() joins it for 5 seconds only                   *)
StartAgain == StartCall(MaxPollers + 1)

(* Thread.join: it returns when the thread has ended (a polling thread     *)
(* that is not inside a job sees the cleared flag within a second and      *)
(* ends), and when it is bounded by a timeout also when the timeout has    *)
(* passed.  A reference to a thread that has ended is kept as 0, and so is *)
(* None.                                                                   *)
JoinReturns(thread, bounded) ==
    thread \notin pollers \/ thread \in IdlePollers \/ bounded

(* a stop() that joins the polling thread without a timeout *)
StopJoinReturns_Unbounded == JoinReturns(scheduler_thread, FALSE)

(* stop() lines 801-802: self.scheduler_thread.join(timeout=5) *)
StopJoinReturns == JoinReturns(scheduler_thread, TRUE)

(* stop(): the flag is cleared, scheduler_thread is joined for at most 5   *)
(* seconds, every stored Observer is stopped (its thread ends once         *)
(* stopped), stop() returns                                                *)
StopCall ==
    /\ StopJoinReturns
    /\ running' = FALSE
    /\ pollers' = pollers \ (IdlePollers \cap {scheduler_thread})
    /\ scheduler_thread' = IF scheduler_thread \in pollers' THEN scheduler_thread ELSE 0
    /\ objs' = [o \in DOMAIN objs |->
                  IF \E id \in TaskIds : file_observers[id] = o
                  THEN [objs[o] EXCEPT !.observer = "stopped"] ELSE objs[o]]
    /\ UNCHANGED <<regVars, execs, nentries, history, clockVars, env, outbox, request>>

Stop == StopCall /\ event' = NoEvent

(* the same step, with the return of stop() kept in event *)
StopReports == StopCall /\ event' = MkEvent("stopped", 0, <<>>)

(* run_scheduler: a polling thread finds self.running false and ends *)
PollerExit(p) ==
    /\ ~running
    /\ p \in IdlePollers
    /\ pollers' = pollers \ {p}
    /\ scheduler_thread' = IF scheduler_thread = p THEN 0 ELSE scheduler_thread
    /\ UNCHANGED <<objs, regVars, running, execs, nentries, history, clockVars, env, outbox, request>>
    /\ event' = NoEvent

(* a timestamp is held somewhere in the state *)
ClockInUse ==
    \/ execs # EmptyBag
    \/ history # <<>>
    \/ \E o \in Objs : objs[o].last_run # NoTime

(* by how much the clock is seen to advance: a minute (a retry timer is    *)
(* due), a day and a minute (a last run is stale)                          *)
TickSteps == {RetryDelay, FreshWindow + RetryDelay}

(* the wall clock advances; minute 0 is the minute of the first timestamp  *)
(* the program takes                                                       *)
Tick(d) ==
    /\ ticks < MaxTicks
    /\ ClockInUse
    /\ now' = now + d
    /\ ticks' = ticks + 1
    /\ UNCHANGED <<objs, regVars, loopVars, execs, nentries, history, env, outbox, request>>
    /\ event' = NoEvent

Next ==
    \/ \E d \in Catalog : AddTask(d)
    \/ \E id \in TaskIds : RemoveTask(id)
    \/ \E id \in TaskIds : RunNow(id)
    \/ \E o \in Objs : FileEvent(o)
    \/ \E o \in Objs, h \in Hashes \cup {0} : CheckUrl(o, h)
    \/ \E o \in Objs, p \in pollers, r \in Readings : CheckResources(o, p, r)
    \/ \E o \in Objs, p \in pollers : FireJob(o, p)
    \/ \E e \in Threads : TimerFire(e)
    \/ \E e \in Threads, outcome \in AllOutcomes : Body(e, outcome)
    \/ \E e \in Threads, smtp_ok \in BOOLEAN : Finally(e, smtp_ok)
    \/ \E e \in Threads : Retry(e)
    \/ Start
    \/ Stop
    \/ \E p \in pollers : PollerExit(p)
    \/ \E d \in TickSteps : Tick(d)

Spec == Init /\ [][Next]_vars

(* the same program where the history store may be unwritable *)
InitEnv ==
    /\ objs = <<>>
    /\ tasks = [id \in TaskIds |-> 0]
    /\ file_observers = [id \in TaskIds |-> 0]
    /\ running = FALSE
    /\ pollers = {}
    /\ scheduler_thread = 0
    /\ execs = EmptyBag
    /\ nentries = 0
    /\ history = <<>>
    /\ now = 0
    /\ ticks = 0
    /\ env \in {c \in Envs : c.mail_section_ok /\ ~c.mail_configured}
    /\ outbox = <<>>
    /\ request = NoRequest
    /\ event = NoEvent

SpecEnv == InitEnv /\ [][Next]_vars

(* The executor alone, in every environment: the history store may be     *)
(* unwritable, the configuration file may hold the mail username and       *)
(* password.  Executions are started by run_task_immediately and by the    *)
(* retry timers.                                                           *)
InitExec ==
    /\ objs = <<>>
    /\ tasks = [id \in TaskIds |-> 0]
    /\ file_observers = [id \in TaskIds |-> 0]
    /\ running = FALSE
    /\ pollers = {}
    /\ scheduler_thread = 0
    /\ execs = EmptyBag
    /\ nentries = 0
    /\ history = <<>>
    /\ now = 0
    /\ ticks = 0
    /\ env \in Envs
    /\ outbox = <<>>
    /\ request = NoRequest
    /\ event = NoEvent

NextExec ==
    \/ \E d \in Catalog : AddTask(d)
    \/ \E id \in TaskIds : RunNow(id)
    \/ \E e \in Threads : TimerFire(e)
    \/ \E e \in Threads, outcome \in AllOutcomes : Body(e, outcome)
    \/ \E e \in Threads, smtp_ok \in BOOLEAN : Finally(e, smtp_ok)
    \/ \E e \in Threads : Retry(e)
    \/ \E d \in TickSteps : Tick(d)

SpecExec == InitExec /\ [][NextExec]_vars

----------------------------------------------------------------------------
(* The scheduler as constructed over a persisted task file: __init__ ends  *)
(* with _load_tasks, which reads tasks.json.                               *)

MaxFileLen == 2     \* entries of the persisted task file

(* an entry of the file: the description it holds, and whether it has the  *)
(* keys Task.from_dict indexes (task_id, name, command, schedule_expr)     *)
MkEntry(d, keys_ok) == [d |-> d, keys_ok |-> keys_ok]

FileEntries ==
    {MkEntry(d, TRUE) : d \in {c \in Catalog : c.enabled /\ c.sched \in {"every", "on_file_change"}}}
        \cup {MkEntry(d, FALSE) : d \in {c \in Catalog : c.sched = "unknown"}}

(* tasks.json: missing, not JSON, or a JSON list of entries *)
TaskFiles ==
    {[kind |-> k, entries |-> <<>>] : k \in {"missing", "invalid"}}
        \cup {[kind |-> "list", entries |-> es] :
                 es \in UNION {[1..n -> FileEntries] : n \in 0..MaxFileLen}}

(* the registry of a scheduler that has loaded nothing *)
EmptyRegistry ==
    [objs |-> <<>>, tasks |-> [id \in TaskIds |-> 0],
     file_observers |-> [id \in TaskIds |-> 0]]

(* _load_tasks lines 279-281: Task.from_dict, self.tasks[task.task_id] =   *)
(* task, self._schedule_task(task)                                         *)
Register(reg, d) ==
    LET t == ScheduleTask(NewTask(d))
        o == Len(reg.objs) + 1
    IN [objs |-> Append(reg.objs, t),
        tasks |-> [reg.tasks EXCEPT ![t.task_id] = o],
        file_observers |-> IF t.observer = "alive"
                           THEN [reg.file_observers EXCEPT ![t.task_id] = o]
                           ELSE reg.file_observers]

(* the loop of lines 278-281: Task.from_dict raises KeyError on an entry   *)
(* without its keys, which ends the loop at line 285 with the entries      *)
(* before it registered and scheduled                                      *)
RECURSIVE LoadEntries(_, _)
LoadEntries(reg, es) ==
    IF es = <<>> THEN reg
    ELSE IF ~Head(es).keys_ok THEN reg
    ELSE LoadEntries(Register(reg, Head(es).d), Tail(es))

(* _load_tasks: nothing is read when the file is missing (line 274);       *)
(* json.load raises on a file that is not JSON (line 276)                  *)
LoadTasks(file) ==
    IF file.kind = "list" THEN LoadEntries(EmptyRegistry, file.entries)
    ELSE EmptyRegistry

(* does an exception leave _load_tasks: lines 275 and 285 catch every      *)
(* Exception                                                               *)
LoadRaises(file) == FALSE

InitLoad ==
    /\ event \in {MkEvent("loaded", 0, [file |-> f, raised |-> LoadRaises(f)]) :
                     f \in TaskFiles}
    /\ objs = LoadTasks(event.detail.file).objs
    /\ tasks = LoadTasks(event.detail.file).tasks
    /\ file_observers = LoadTasks(event.detail.file).file_observers
    /\ running = FALSE
    /\ pollers = {}
    /\ scheduler_thread = 0
    /\ execs = EmptyBag
    /\ nentries = 0
    /\ history = <<>>
    /\ now = 0
    /\ ticks = 0
    /\ env = DefaultEnv
    /\ outbox = <<>>
    /\ request = NoRequest

(* what the loaded scheduler does once started *)
NextLoad ==
    \/ \E id \in TaskIds : RemoveTask(id)
    \/ \E o \in Objs : FileEvent(o)
    \/ \E o \in Objs, p \in pollers : FireJob(o, p)
    \/ \E e \in Threads : TimerFire(e)
    \/ \E e \in Threads, outcome \in AllOutcomes : Body(e, outcome)
    \/ \E e \in Threads, smtp_ok \in BOOLEAN : Finally(e, smtp_ok)
    \/ \E e \in Threads : Retry(e)
    \/ Start
    \/ Stop
    \/ \E p \in pollers : PollerExit(p)
    \/ \E d \in TickSteps : Tick(d)

SpecLoad == InitLoad /\ [][NextLoad]_vars

----------------------------------------------------------------------------
(* The calls of the scheduler's interface and the executor, with what each *)
(* call returns or reports to its caller kept in event.                    *)

(* remove_task(task_id) with an id that is not registered: lines 356-358   *)
(* log a warning and return False                                          *)
RemoveUnknown(id) ==
    /\ tasks[id] = 0
    /\ UNCHANGED <<objs, regVars, loopVars, execs, nentries, history, clockVars, env, outbox, request>>
    /\ event' = MkEvent("refused", 0, [op |-> "remove_task", id |-> id,
                                        returned |-> RemoveTaskReturns(id)])

(* run_task_immediately(task_id) with an id that is not registered *)
RunUnknown(id) ==
    /\ tasks[id] = 0
    /\ execs' = RunTaskImmediately(execs, id)
    /\ objs' = RunTaskImmediatelyObjs(objs, id)
    /\ nentries' = Entered(id)
    /\ UNCHANGED <<regVars, loopVars, history, clockVars, env, outbox, request>>
    /\ event' = MkEvent("refused", 0, [op |-> "run_task_immediately", id |-> id,
                                        returned |-> RunTaskImmediatelyReturns(id)])

(* the retention periods cleanup_old_records is called with, in days *)
CleanupDays == {0, 1}

(* the cutoff of line 814: datetime.now() - timedelta(days=days) *)
Cutoff(days) == now - days * Day

(* a sweep that compares the end of the execution with the cutoff *)
CleanupOldRecords_ByEndTime(h, days) ==
    LET Kept(r) == ~(r.end_time < Cutoff(days)) IN SelectSeq(h, Kept)

(* lines 819-822: DELETE FROM task_history WHERE start_time < cutoff *)
CleanupOldRecords(h, days) ==
    LET Kept(r) == ~(r.start_time < Cutoff(days)) IN SelectSeq(h, Kept)

(* cleanup_old_records(days): the rows are deleted and cursor.rowcount is  *)
(* logged; an exception of the store is logged instead (lines 830-831)     *)
Cleanup(days) ==
    /\ history' = IF env.store_ok THEN CleanupOldRecords(history, days) ELSE history
    /\ event' = MkEvent("cleaned", 0,
                        [days |-> days,
                         reported |-> IF env.store_ok
                                      THEN <<Len(history) - Len(history')>>
                                      ELSE <<>>])
    /\ UNCHANGED <<objs, regVars, loopVars, execs, nentries, clockVars, env, outbox, request>>

NextCalls ==
    \/ \E days \in CleanupDays : Cleanup(days)
    \/ \E d \in Catalog : AddTask(d)
    \/ \E id \in TaskIds : RemoveTask(id)
    \/ \E id \in TaskIds : RemoveUnknown(id)
    \/ \E id \in TaskIds : RunNow(id)
    \/ \E id \in TaskIds : RunUnknown(id)
    \/ \E e \in Threads : TimerFire(e)
    \/ \E e \in Threads, outcome \in AllOutcomes : BodyReports(e, outcome)
    \/ \E e \in Threads, smtp_ok \in BOOLEAN : Finally(e, smtp_ok)
    \/ \E e \in Threads : Retry(e)
    \/ \E d \in TickSteps : Tick(d)

SpecCalls == InitEnv /\ [][NextCalls]_vars

----------------------------------------------------------------------------
(* The scheduler left to its triggers, watchers and timers: no caller runs *)
(* a task by hand, and the return of stop() is kept in event.              *)
NextStop ==
    \/ \E d \in Catalog : AddTask(d)
    \/ \E o \in Objs : FileEvent(o)
    \/ \E o \in Objs, p \in pollers : FireJob(o, p)
    \/ \E e \in Threads : TimerFire(e)
    \/ \E e \in Threads, outcome \in AllOutcomes : Body(e, outcome)
    \/ \E e \in Threads, smtp_ok \in BOOLEAN : Finally(e, smtp_ok)
    \/ \E e \in Threads : Retry(e)
    \/ StartAgain
    \/ StopReports
    \/ \E p \in pollers : PollerExit(p)
    \/ \E d \in TickSteps : Tick(d)

SpecStop == Init /\ [][NextStop]_vars

----------------------------------------------------------------------------
(* APIClient._make_request of src/03_web_scraping/api_client.py            *)

MaxClientRetries == 3   \* the largest max_retries a client is made with (the default)

NoResponse == 0         \* the attempt raised without a response (Timeout,
                        \* ConnectionError, any other exception)
NoStatus == -1          \* status_code is None

(* what an attempt gets: an HTTP status code, or no response *)
Responses == {200, 204, 404, 500, NoResponse}

(* response.raise_for_status() raises HTTPError for a 4xx or 5xx status *)
RaisesHTTPError(status) == status >= 400

(* the truth value of a requests.Response is Response.ok: false for a 4xx  *)
(* or 5xx status                                                           *)
ResponseTruth(status) == status < 400

(* line 179: status_code = e.response.status_code if e.response else None *)
StatusCodeRead(status) == IF ResponseTruth(status) THEN status ELSE NoStatus

(* lines 183-184: does the handler of HTTPError leave the loop *)
GivesUp(status) ==
    LET status_code == StatusCodeRead(status)
    IN status_code # NoStatus /\ 400 <= status_code /\ status_code < 500

(* _make_request is called on a client made with max_retries; cached: it   *)
(* is a GET whose answer is in the cache and still valid (lines 131-135)   *)
MakeRequest(max_retries, cached) ==
    /\ request.pc = "idle"
    /\ request' = IF cached THEN MkRequest("done", max_retries, 0, <<>>, "data")
                  ELSE IF 0 < max_retries + 1
                       THEN MkRequest("loop", max_retries, 0, <<>>, "pending")
                       ELSE MkRequest("done", max_retries, 0, <<>>, "None")
    /\ UNCHANGED schedulerVars

(* one pass of the loop of lines 141-196: the attempt gets resp; a         *)
(* response that does not raise is returned (line 176); the handler of     *)
(* HTTPError may leave the loop; otherwise the loop waits and goes on      *)
(* while attempt < max_retries, and line 199 returns None when it is over  *)
Attempt(resp) ==
    /\ request.pc = "loop"
    /\ LET seen == Append(request.seen, resp)
       IN request' =
             IF resp # NoResponse /\ ~RaisesHTTPError(resp)
             THEN [request EXCEPT !.pc = "done", !.seen = seen, !.result = "data"]
             ELSE IF resp # NoResponse /\ GivesUp(resp)
             THEN [request EXCEPT !.pc = "done", !.seen = seen, !.result = "None"]
             ELSE IF request.attempt < request.max_retries
             THEN [request EXCEPT !.attempt = @ + 1, !.seen = seen]
             ELSE [request EXCEPT !.pc = "done", !.seen = seen, !.result = "None"]
    /\ UNCHANGED schedulerVars

NextClient ==
    \/ \E max_retries \in (0 - 1)..MaxClientRetries, cached \in BOOLEAN :
          MakeRequest(max_retries, cached)
    \/ \E resp \in Responses : Attempt(resp)

SpecClient == Init /\ [][NextClient]_vars

----------------------------------------------------------------------------
(* Vocabulary of the properties *)

(* executions of object o between the setting and the clearing of          *)
(* is_running                                                              *)
InFlight(o) ==
    BagCardinality([e \in {x \in Threads : InExecute(x) /\ x.obj = o} |-> execs[e]])

(* this step puts thread e into the bag: e enters, or moves to, its pc *)
Arrives(e) == CopiesIn(e, execs') > CopiesIn(e, execs)

(* this step takes thread e out of the bag *)
Leaves(e) == CopiesIn(e, execs') < CopiesIn(e, execs)

(* this step is the entry of an execution of object o into _execute_task *)
Begins(e) == e.pc = "body" /\ Arrives(e)

(* the trigger or watcher of object o is installed *)
Installed(o) == objs[o].job # "none" \/ objs[o].observer = "alive"

----------------------------------------------------------------------------
(* C1: for every task, at any instant at most one execution of it is in    *)
(* flight, between _execute_task setting is_running and clearing it.       *)
C1_AtMostOneInFlight == \A o \in Objs : InFlight(o) <= 1

(* C2: no execution enters _execute_task, on any dispatch path, for a task *)
(* with a dependency that is missing from the registry, never ran, or ran  *)
(* more than 24 hours ago.                                                 *)
C2_GateOnEveryPath ==
    [][\A e \in BagToSet(execs') :
          Begins(e) => CheckDependencies(objs[e.obj])]_vars

(* C3: after max_retries consecutive failed executions of a task no        *)
(* further retry is scheduled: no execution and no pending retry timer is  *)
(* more than max_retries automatic retries away from the dispatch it       *)
(* follows.                                                                *)
C3_RetriesCapped ==
    \A e \in Threads : e.attempt <= objs[e.obj].max_retries

(* C4 as claimed: the end of every execution appends exactly one row, for  *)
(* its task, with end_time >= start_time and execution_time their          *)
(* difference; nothing else appends a row.                                 *)
AppendsRowOf(e) ==
    /\ Len(history') = Len(history) + 1
    /\ SubSeq(history', 1, Len(history)) = history
    /\ LET r == history'[Len(history')]
       IN /\ r.task_id = objs[e.obj].task_id
          /\ r.status = e.status
          /\ r.start_time = e.start
          /\ r.end_time >= r.start_time
          /\ r.execution_time = r.end_time - r.start_time

Ends(e) == e.pc = "finally" /\ Leaves(e)

C4_OneRowPerExecution ==
    [][/\ \A e \in Threads : Ends(e) => AppendsRowOf(e)
       /\ (\A e \in Threads : ~Ends(e)) => history' = history]_vars

(* C4 as amended: the end of every execution appends exactly one such row  *)
(* when the store takes the insert and none when the insert raises;        *)
(* nothing else appends a row.                                             *)
C4_OneRowUnlessStoreFails ==
    [][/\ \A e \in Threads :
             Ends(e) => IF env.store_ok THEN AppendsRowOf(e) ELSE history' = history
       /\ (\A e \in Threads : ~Ends(e)) => history' = history]_vars

(* C4 witness: two executions have ended and the row of the second spans   *)
(* time.                                                                   *)
C4_Witness ==
    /\ Len(history) = 2
    /\ history[2].status = "failed"
    /\ history[2].end_time > history[2].start_time

(* C5: while an id is absent from the registry after its removal, no       *)
(* schedule fire, watcher or pending retry timer starts an execution of a  *)
(* task of that id (so no new history row is produced for it).             *)
C5_NoRunAfterRemove ==
    [][\A e \in BagToSet(execs') :
          Begins(e) => tasks[objs[e.obj].task_id] # 0]_vars

(* C6: no installed trigger or watcher refers to an id that is absent from *)
(* the registry.                                                           *)
C6_NoOrphanTrigger ==
    \A o \in Objs : Installed(o) => tasks[objs[o].task_id] # 0

(* C7: each registered id has at most one trigger installed, and it        *)
(* dispatches the Task object that is in the registry.                     *)
C7_OneTriggerPerTask ==
    \A o \in Objs :
        (Installed(o) /\ tasks[objs[o].task_id] # 0) => tasks[objs[o].task_id] = o

(* C8: every row handed to the Result Recorder has a terminal status.      *)
C8_TerminalStatus ==
    \A i \in 1..Len(history) : history[i].status \in Terminal

(* C9: retry_count goes back to zero only at the end of an action whose    *)
(* result is completed.                                                    *)
C9_ResetOnlyOnSuccess ==
    [][\A o \in Objs :
          (objs[o].retry_count > 0 /\ objs'[o].retry_count = 0) =>
              \E e \in BagToSet(execs') :
                  /\ Arrives(e)
                  /\ e.obj = o /\ e.pc = "finally" /\ e.status = "completed"]_vars

(* C10: last_run, which the Dependency Gate reads, is set only at the end  *)
(* of an action whose result is completed.                                 *)
C10_LastRunOnlyOnSuccess ==
    [][\A o \in Objs :
          objs'[o].last_run # objs[o].last_run =>
              \E e \in BagToSet(execs') :
                  /\ Arrives(e)
                  /\ e.obj = o /\ e.pc = "finally" /\ e.status = "completed"]_vars

(* C11 as claimed: when the Dependency Gate denies a fired task, one row    *)
(* with status skipped is recorded for that attempt.                       *)
C11_DeniedIsSkipped ==
    event.kind = "denied" =>
        /\ history # <<>>
        /\ history[Len(history)].status = "skipped"
        /\ history[Len(history)].task_id = objs[event.obj].task_id

(* C12: a poll of the URL-change trigger that gets a response: the first   *)
(* one only stores the hash and requests no execution; a later one with    *)
(* the stored hash requests none and keeps the hash; a later one with      *)
(* another hash stores it and requests execution exactly once (one         *)
(* run_task_immediately, which starts one thread when the id is            *)
(* registered).                                                            *)
C12_UrlPollProtocol ==
    [][event'.kind = "polled" =>
          LET o == event'.obj
              stored == objs[o].url_hash
              fetched == event'.detail.fetched
              requests == event'.detail.requests
              id == objs[o].task_id
          IN /\ (fetched # 0 /\ stored = NoHash) =>
                    /\ requests = 0
                    /\ execs' = execs
                    /\ objs'[o].url_hash = fetched
             /\ (fetched # 0 /\ stored # NoHash /\ fetched = stored) =>
                    /\ requests = 0
                    /\ execs' = execs
                    /\ objs'[o].url_hash = stored
             /\ (fetched # 0 /\ stored # NoHash /\ fetched # stored) =>
                    /\ requests = 1
                    /\ objs'[o].url_hash = fetched
                    /\ execs' = IF tasks[id] = 0 THEN execs
                                ELSE Put(execs, MkExec(tasks[id], "body", 0, now, 0,
                                                       "running", 0))]_vars

(* C12 witness: a poll has found another hash than the stored one and the  *)
(* execution it requested has begun.                                       *)
C12_Witness ==
    /\ event.kind = "polled"
    /\ event.detail.requests = 1
    /\ objs[event.obj].url_hash = event.detail.fetched
    /\ \E e \in Threads :
          e.pc = "body" /\ e.obj = tasks[objs[event.obj].task_id]

(* C13 as claimed: while an execution fired by the polling loop is in      *)
(* flight, the polling thread that fired it still evaluates triggers: it   *)
(* is not held inside the job.                                             *)
C13_LoopPollsDuringExecution ==
    \A e \in Threads :
        (InExecute(e) /\ e.poller \in pollers) => e.poller \in IdlePollers

(* C14 as claimed: while self.running stays true no polling thread ends:   *)
(* whatever is raised while a trigger, a watcher poll or an execution is   *)
(* processed, the loop keeps polling until stop() is called.               *)
C14_LoopSurvivesExceptions ==
    [][(running /\ running') => pollers \subseteq pollers']_vars

(* C15 as claimed: the retry counter a failed execution has is the one its *)
(* retry decision is taken on (the failing of the action leaves it alone); *)
(* the end of a failed execution whose counter is under max_retries goes   *)
(* on to the retry, and no other end does; the retry adds exactly one to   *)
(* the counter and starts exactly one timer, for the same Task object, due *)
(* after the fixed delay; and a timer calls _execute_task only when due.   *)
C15_OneRetryWhileUnderCap ==
    [][/\ \A f \in BagToSet(execs') :
             (Arrives(f) /\ f.pc = "finally" /\ f.status = "failed") =>
                 objs'[f.obj].retry_count = objs[f.obj].retry_count
       /\ \A e \in Threads :
             /\ Ends(e) =>
                   execs' = IF e.status = "failed"
                               /\ objs[e.obj].retry_count < objs[e.obj].max_retries
                            THEN Put(Take(execs, e), [e EXCEPT !.pc = "retry"])
                            ELSE Take(execs, e)
             /\ (e.pc = "retry" /\ Leaves(e)) =>
                   /\ objs'[e.obj].retry_count = objs[e.obj].retry_count + 1
                   /\ \E t \in BagToSet(execs') :
                         /\ t.pc = "timer" /\ t.obj = e.obj
                         /\ t.due = now + RetryDelay
                         /\ execs' = Put(Take(execs, e), t)
             /\ (e.pc = "timer" /\ Leaves(e)) => now >= e.due]_vars

(* C16 as claimed: start() from stopped sets running and spawns exactly    *)
(* one polling thread, nothing else sets running; stop() from running      *)
(* clears running and leaves no file watcher observing.                    *)
C16_TwoStateMachine ==
    [][/\ (~running /\ running') =>
             /\ pollers \subseteq pollers'
             /\ Cardinality(pollers' \ pollers) = 1
             /\ scheduler_thread' \in pollers' \ pollers
       /\ (running /\ ~running') =>
             \A o \in DOMAIN objs' : objs'[o].observer # "alive"]_vars

(* C17: whenever an execution is in flight, the polling thread's job or a  *)
(* thread of its own, stop() can run to its return; and the stop() that    *)
(* clears the flag leaves every execution in flight as it is: it ends      *)
(* none and waits for none.                                                *)
C17_StopReturns ==
    /\ []((\E e \in Threads : InExecute(e)) => ENABLED Stop)
    /\ [][(running /\ ~running') => execs' = execs]_vars

(* C17 witness: stop() has returned while the polling thread is still      *)
(* inside the execution it fired.                                          *)
C17_Witness ==
    /\ ~running
    /\ \E e \in Threads : InExecute(e) /\ e.poller \in pollers

(* C18: every message handed to the mail transport is for an execution     *)
(* that completed with the task's notify_on_success set or failed with its *)
(* notify_on_failure set, and none is handed over while the configuration  *)
(* holds no mail username or no password.                                  *)
C18_NotifyOnlyWhenAsked ==
    \A i \in 1..Len(outbox) :
        LET msg == outbox[i]
            t == objs[msg.obj]
        IN /\ \/ msg.status = "completed" /\ t.notify_on_success
              \/ msg.status = "failed" /\ t.notify_on_failure
           /\ env.mail_configured

(* C18 witness: a completed execution and a failed one have each been      *)
(* notified.                                                               *)
C18_Witness ==
    /\ Len(outbox) = 2
    /\ outbox[1].status = "completed"
    /\ outbox[2].status = "failed"

(* C19 as claimed: whether or not the save of the row or the notification  *)
(* fails, the end of an execution clears is_running, leaves last_run as    *)
(* the action set it, saves the result status it has when the store takes  *)
(* the row, and goes on to the retry exactly when it failed with the retry *)
(* counter under max_retries.                                              *)
C19_SaveAndNotifyFailuresContained ==
    [][\A e \in Threads :
          Ends(e) =>
              /\ objs'[e.obj].is_running = FALSE
              /\ objs'[e.obj].last_run = objs[e.obj].last_run
              /\ env.store_ok => /\ history' # <<>>
                                 /\ history'[Len(history')].status = e.status
              /\ (\E r \in BagToSet(execs') : Arrives(r) /\ r.pc = "retry" /\ r.obj = e.obj)
                    <=> /\ e.status = "failed"
                        /\ objs[e.obj].retry_count < objs[e.obj].max_retries]_vars

(* C20 as claimed: the load of a task file that is missing, is not JSON or *)
(* holds an entry without its keys raises nothing and leaves the registry  *)
(* empty with no trigger or watcher installed.                             *)
C20_CorruptFileLoadsNothing ==
    event.kind = "loaded" =>
        LET file == event.detail.file
            corrupt == \/ file.kind \in {"missing", "invalid"}
                       \/ \E i \in 1..Len(file.entries) : ~file.entries[i].keys_ok
        IN corrupt => /\ ~event.detail.raised
                      /\ \A id \in TaskIds : tasks[id] = 0
                      /\ \A o \in Objs : ~Installed(o)

(* C21: remove_task and run_task_immediately called with an id that is not *)
(* in the registry return False and leave the Task objects with their      *)
(* triggers and watchers, the registry, the stored observers, the threads  *)
(* and timers and the history as they are.                                 *)
C21_UnknownIdRefused ==
    [][event'.kind = "refused" =>
          /\ tasks[event'.detail.id] = 0
          /\ event'.detail.returned = FALSE
          /\ UNCHANGED <<objs, tasks, file_observers, execs, history>>]_vars

(* C21 witness: run_task_immediately has been refused for an id that was   *)
(* removed while its URL or resource monitor stays installed and its       *)
(* history holds a row.                                                    *)
C21_Witness ==
    /\ event.kind = "refused"
    /\ event.detail.op = "run_task_immediately"
    /\ history # <<>>
    /\ \E o \in Objs : Installed(o) /\ objs[o].task_id = event.detail.id

(* C22: the result of a shell-command action follows the outcome of the    *)
(* process: a timeout gives status failed with the timeout message and the *)
(* process killed; a non-zero exit gives status failed with the captured   *)
(* stderr as error; a zero exit gives status completed with the captured   *)
(* stdout as output; and it is with this status that the execution goes on *)
(* to its finally block.                                                   *)
C22_ShellResult ==
    [][(event'.kind = "ran" /\ objs[event'.obj].cmd = "shell") =>
          LET outcome == event'.detail.outcome
              result == event'.detail.result
          IN /\ outcome = "timeout" =>
                    /\ result.status = "failed"
                    /\ result.error = "timed out"
                    /\ result.killed
             /\ outcome = "nonzero" =>
                    /\ result.status = "failed"
                    /\ result.error = "stderr"
             /\ outcome = "exit0" =>
                    /\ result.status = "completed"
                    /\ result.output = "stdout"
             /\ \E f \in BagToSet(execs') :
                    /\ Arrives(f) /\ f.obj = event'.obj
                    /\ f.pc = "finally" /\ f.status = result.status]_vars

(* C22 witness: a shell command has run into its timeout after an earlier  *)
(* execution was saved as completed.                                       *)
C22_Witness ==
    /\ event.kind = "ran"
    /\ event.detail.outcome = "timeout"
    /\ objs[event.obj].cmd = "shell"
    /\ \E i \in 1..Len(history) : history[i].status = "completed"

(* C23 as claimed: when add_task is given a task that is disabled or whose *)
(* schedule expression is not recognized, the task is stored under its id  *)
(* and that id ends up with no trigger and no watcher installed.           *)
C23_DormantTaskHasNoTrigger ==
    [][Len(objs') = Len(objs) + 1 =>
          LET o == Len(objs')
              t == objs'[o]
          IN (~t.enabled \/ t.sched = "unknown") =>
                 /\ tasks'[t.task_id] = o
                 /\ \A p \in DOMAIN objs' :
                        objs'[p].task_id = t.task_id =>
                            objs'[p].job = "none" /\ objs'[p].observer # "alive"]_vars

(* C24: a fire that the is-running guard drops or the Dependency Gate      *)
(* denies leaves the task's retry_count, last_run and is_running as they   *)
(* are, and starts no thread and no retry timer.                           *)
C24_RefusedFireChangesNothing ==
    [][event'.kind \in {"dropped", "denied"} =>
          LET o == event'.obj
          IN /\ objs'[o].retry_count = objs[o].retry_count
             /\ objs'[o].last_run = objs[o].last_run
             /\ objs'[o].is_running = objs[o].is_running
             /\ execs' = execs]_vars

(* C24 witness: a fire has been dropped for a task whose retry is in       *)
(* flight with a retry counted.                                            *)
C24_Witness ==
    /\ event.kind = "dropped"
    /\ objs[event.obj].is_running
    /\ objs[event.obj].retry_count = 1

(* C25 as claimed: a step that is not a sweep leaves every existing row in *)
(* its place and as it is; cleanup_old_records(days) deletes exactly the   *)
(* rows whose start is before now minus days, keeps the others in their    *)
(* order, and reports how many it removed.                                 *)
SweptExactly(days) ==
    LET Old(r) == r.start_time < now - days * Day
        Recent(r) == ~Old(r)
    IN /\ history' = SelectSeq(history, Recent)
       /\ event'.detail.reported = <<Len(SelectSeq(history, Old))>>

AppendOnly ==
    /\ Len(history') >= Len(history)
    /\ SubSeq(history', 1, Len(history)) = history

C25_SweepDeletesOldRows ==
    [][IF event'.kind = "cleaned" THEN SweptExactly(event'.detail.days)
       ELSE AppendOnly]_vars

(* C25 as amended: the same when the store takes the statement; when it    *)
(* raises, the sweep deletes nothing and reports nothing.                  *)
C25_SweepUnlessStoreFails ==
    [][IF event'.kind = "cleaned"
       THEN IF env.store_ok THEN SweptExactly(event'.detail.days)
            ELSE history' = history /\ event'.detail.reported = <<>>
       ELSE AppendOnly]_vars

(* C25 witness: of two rows a day apart a sweep has removed the older and  *)
(* kept the newer.                                                         *)
C25_Witness ==
    /\ event.kind = "cleaned"
    /\ event.detail.reported = <<1>>
    /\ Len(history) = 1
    /\ history[1].start_time > Day

(* C26 as claimed: a task's is_running is true exactly when at least one   *)
(* execution of it is in flight.                                           *)
C26_RunningIffInFlight ==
    \A o \in Objs : objs[o].is_running <=> InFlight(o) >= 1

(* pending retry timers of object o *)
PendingTimers(o) ==
    BagCardinality([e \in {x \in Threads : x.pc = "timer" /\ x.obj = o} |-> execs[e]])

(* C27 as claimed: for every task 0 <= retry_count <= max_retries and at   *)
(* most one retry timer is pending.                                        *)
C27_RetryCountAndTimersBounded ==
    \A o \in Objs :
        /\ 0 <= objs[o].retry_count
        /\ objs[o].retry_count <= objs[o].max_retries
        /\ PendingTimers(o) <= 1

(* C28 as claimed: while the scheduler is running at most one polling      *)
(* thread evaluates triggers.                                              *)
C28_OnePollingCycle ==
    running => Cardinality(IdlePollers) <= 1

(* C29 as claimed: once stop() has returned, the next thing to happen is   *)
(* never the entry of a trigger, a watcher or a retry timer into           *)
(* _execute_task.                                                          *)
C29_NothingBeginsAfterStop ==
    [][event.kind = "stopped" => \A e \in BagToSet(execs') : ~Begins(e)]_vars

(* C30 as claimed: _make_request makes at most max_retries + 1 attempts;   *)
(* an attempt that succeeds is the last and its data is returned; an       *)
(* attempt that fails with a 4xx status is the last and None is returned.  *)
C30_NoRetryAfterClientError ==
    [][request'.seen # request.seen =>
          LET last == request'.seen[Len(request'.seen)]
          IN /\ Len(request'.seen) <= request'.max_retries + 1
             /\ request.pc = "loop"
             /\ (last # NoResponse /\ last < 400) =>
                    request'.pc = "done" /\ request'.result = "data"
             /\ (400 <= last /\ last < 500) =>
                    request'.pc = "done" /\ request'.result = "None"]_vars
====
